---- MODULE Spec2Model ----
(***************************************************************************)
(* Real-time transport core of the NextGen messenger.                      *)
(*                                                                         *)
(* Two state machines share this module:                                   *)
(*   Spec        the call signalling coordinator of one client: the         *)
(*               ChatArea component (client/src/components/chat-area.tsx)   *)
(*               and the CallService objects it creates                     *)
(*               (lib/call-service.ts, kept as src/unnamed/part_007).       *)
(*   SpecServer  the server's connection registry, presence glue and        *)
(*               message fan-out (server/routes.ts).                        *)
(*                                                                         *)
(* JavaScript runs one handler at a time; an async function gives up the    *)
(* thread at each await.  Every action below is one such run-to-completion  *)
(* segment: from an event (click, frame, timer, promise settling) to the    *)
(* next await or return.                                                    *)
(***************************************************************************)
EXTENDS Integers, Sequences, FiniteSets, Bags, TLC

(***************************************************************************)
(* Bounds of the model and constants of the program.                       *)
(***************************************************************************)
MaxServices == 2            \* CallService objects one client creates
MaxCandidates == 1          \* distinct ice-candidate frames delivered
CALL_TIMEOUT == 60000       \* part_007:87

NULL == "null"
Peers == {"B"}              \* the identities the local user "A" can talk to
Candidates == 1..MaxCandidates
TickMs == CALL_TIMEOUT      \* granularity at which time is observed

MaxConns == 2               \* WebSocket connections the server accepts
MaxAuths == 2               \* auth frames the server receives, all connections
MaxRequests == 1            \* POST /api/messages requests
MaxSignals == 1             \* signaling frames the server receives, all connections
MaxInput == 2               \* length of the message input
MaxTypingFrames == 4        \* typing frames a client writes
Users == {"A", "B", "C"}    \* user ids
Senders == {"A"}            \* the session user of the requests
Conns == 1..MaxConns

VARIABLES
  \* ---- client: component state of ChatArea (chat-area.tsx:36-69)
  wsRef,             \* wsRef.current: NULL or "ws"
  friend,            \* the friend prop: NULL or a peer id
  callService,       \* useState callService: 0 (null) or an index of svc
  callServiceRef,    \* callServiceRef.current
  incomingCallData,  \* [set, fromUserId]; set = FALSE is null
  showCallModal,
  localStream,       \* useState localStream: 0 or the service whose stream it is
  remoteStream,      \* useState remoteStream: likewise
  isCallConnected,
  ongoingCallType,   \* NULL, "voice" or "video"
  \* ---- client: the CallService objects, in creation order
  svc,
  \* ---- client: the frames written to the socket, a bag
  sent,
  \* ---- server: routes.ts
  connectedUsers,    \* the Map userId -> WebSocket, a set of <<key, value>>
  sockets,           \* per connection: readyState, the closure's userId, counters
  statusCalls,       \* storage.updateUserStatus calls not yet settled, a bag
  users,             \* users.status in the database, per user id
  requests,          \* POST /api/messages requests, in arrival order
  messages,          \* rows inserted by storage.createMessage, in order
  wsFrames,          \* frames handed to ws.send by the message route, a bag
  signals,           \* frames of another type than auth the server has handled
  \* ---- client: the typing indicator of ChatArea (chat-area.tsx:40-50)
  messageInput,      \* useState messageInput: its length, 0 when blank
  isTyping,          \* useState isTyping
  typingTimeoutRef,  \* typingTimeoutRef.current: [set, to], the pending timer
  typingSent,        \* the typing frames written to the socket, in order
  typingUsers        \* useState typingUsers: the peers shown as typing

clientVars == <<wsRef, friend, callService, callServiceRef, incomingCallData,
                showCallModal, localStream, remoteStream, isCallConnected,
                ongoingCallType, svc, sent>>

serverVars == <<connectedUsers, sockets, statusCalls, users, requests,
                messages, wsFrames>>

typingVars == <<messageInput, isTyping, typingTimeoutRef, typingSent,
                typingUsers>>

vars == <<clientVars, serverVars, signals, typingVars>>

Services == 1..Len(svc)

(***************************************************************************)
(* new CallService(...): every private field null (part_007:90-103).       *)
(* Beside the fields of the class the record keeps the objects the fields  *)
(* point to (a stream, a peer connection and a data channel outlive the    *)
(* reference to them), the position of the pending async method with the   *)
(* arguments its continuation and the timer callback close over, and       *)
(* counters of the releases performed.                                     *)
(***************************************************************************)
NewService ==
  [ peer |-> NULL,             \* recipientId of the pending call
    op |-> "idle",             \* position of initializeCall / handleOffer
    ansOp |-> FALSE,           \* handleAnswer awaiting setRemoteDescription
    peerConnection |-> FALSE,  \* this.peerConnection # null
    pcState |-> "none",        \* the RTCPeerConnection object: none/open/closed
    pcCloses |-> 0,
    localDesc |-> "none",      \* none / offer / answer
    remoteDesc |-> "none",     \* none / pending / set
    connected |-> FALSE,       \* connectionState = 'connected'
    queued |-> {},             \* addIceCandidate chained behind setRemoteDescription
    candidates |-> {},         \* candidates the peer connection holds
    iceSeen |-> {},            \* candidates handed to handleIceCandidate
    localStream |-> FALSE, localTrack |-> "none", localStops |-> 0,
    remoteStream |-> FALSE, remoteTrack |-> "none", remoteStops |-> 0,
    dataChannel |-> FALSE, dcState |-> "none", dcCloses |-> 0,
    callTimeout |-> FALSE, remaining |-> 0, timerFired |-> 0,
    endCalls |-> 0 ]

Cap2(n) == IF n >= 2 THEN 2 ELSE n + 1

\* recipientId lives in the closures of the pending method and of the timer
\* callback: once neither exists nothing can read it
Closures(r) ==
  IF r.op \in {"idle", "done", "failed"} /\ ~r.callTimeout
  THEN [r EXCEPT !.peer = NULL] ELSE r

NoIncoming == [set |-> FALSE, fromUserId |-> NULL]

\* a frame the client writes; the opaque payloads (SDP, isVideo, names) are left out
Frame(type, to, reason) == [type |-> type, toUserId |-> to, reason |-> reason]

(***************************************************************************)
(* wsRef.current.send(...) behind `if (wsRef.current)`: chat-area.tsx       *)
(* :90-94, :117-126, :170-176, :198-203.                                   *)
(***************************************************************************)
wsSend(out, frame) == IF wsRef # NULL THEN out (+) SetToBag({frame}) ELSE out

(***************************************************************************)
(* CallService: the timer (part_007:295-321).                              *)
(***************************************************************************)
\* a clearCallTimeout that forgets to cancel: the timer stays pending
clearCallTimeout_leavesTimer(r) == r

clearCallTimeout(r) == Closures([r EXCEPT !.callTimeout = FALSE, !.remaining = 0])

setCallTimeout(r) ==
  [r EXCEPT !.callTimeout = TRUE, !.remaining = CALL_TIMEOUT]

\* the signal the timer callback hands to onSignal (part_007:302-307)
TimeoutSignal(r) == Frame("call-end", r.peer, "timeout")

\* endCall that stops and closes what it holds but keeps the references
endCall_keepsReferences(r) ==
  LET a == clearCallTimeout(r)
      b == IF a.localStream
           THEN [a EXCEPT !.localTrack = "stopped", !.localStops = Cap2(@)] ELSE a
      c == IF b.remoteStream
           THEN [b EXCEPT !.remoteTrack = "stopped", !.remoteStops = Cap2(@)] ELSE b
      d == IF c.peerConnection
           THEN [c EXCEPT !.pcState = "closed", !.pcCloses = Cap2(@), !.queued = {},
                          !.candidates = {}, !.iceSeen = {}, !.localDesc = "none",
                          !.remoteDesc = "none", !.connected = FALSE,
                          !.dcState = IF @ = "open" THEN "closed" ELSE @]
           ELSE c
      e == IF d.dataChannel
           THEN [d EXCEPT !.dcState = "closed", !.dcCloses = Cap2(@)] ELSE d
  IN Closures([e EXCEPT !.endCalls = Cap2(@)])

(***************************************************************************)
(* CallService.endCall (part_007:331-355), without its last line, the      *)
(* onCallEnd callback, which is OnCallEnd below.  close() on the peer       *)
(* connection also closes its data channel and drops the operations         *)
(* chained on it; what a closed connection held is forgotten.               *)
(***************************************************************************)
endCall(r) ==
  LET a == clearCallTimeout(r)
      b == IF a.localStream
           THEN [a EXCEPT !.localTrack = "stopped", !.localStops = Cap2(@),
                          !.localStream = FALSE]
           ELSE a
      c == IF b.remoteStream
           THEN [b EXCEPT !.remoteTrack = "stopped", !.remoteStops = Cap2(@),
                          !.remoteStream = FALSE]
           ELSE b
      d == IF c.peerConnection
           THEN [c EXCEPT !.pcState = "closed", !.pcCloses = Cap2(@),
                          !.peerConnection = FALSE, !.queued = {},
                          !.candidates = {}, !.iceSeen = {},
                          !.localDesc = "none", !.remoteDesc = "none",
                          !.connected = FALSE,
                          !.dcState = IF @ = "open" THEN "closed" ELSE @]
           ELSE c
      e == IF d.dataChannel
           THEN [d EXCEPT !.dcState = "closed", !.dcCloses = Cap2(@),
                          !.dataChannel = FALSE]
           ELSE d
  IN Closures([e EXCEPT !.endCalls = Cap2(@)])

(***************************************************************************)
(* The onCallEnd callback ChatArea gives every service                      *)
(* (chat-area.tsx:95-102).  It leaves incomingCallData alone.               *)
(***************************************************************************)
OnCallEnd ==
  /\ showCallModal' = FALSE
  /\ localStream' = 0
  /\ remoteStream' = 0
  /\ isCallConnected' = FALSE
  /\ ongoingCallType' = NULL
  /\ callService' = 0

(***************************************************************************)
(* setupLocalStream succeeded, then new RTCPeerConnection and               *)
(* setupPeerConnection, which creates the data channel                      *)
(* (part_007:110-119, 149-158, 185-264, 283-293).                           *)
(***************************************************************************)
setupPeerConnection(r) ==
  [r EXCEPT !.localStream = TRUE, !.localTrack = "live",
            !.peerConnection = TRUE, !.pcState = "open",
            !.dataChannel = TRUE, !.dcState = "open"]

(***************************************************************************)
(* setRemoteDescription settled successfully: the description is set and   *)
(* the addIceCandidate calls chained behind it run.                         *)
(***************************************************************************)
remoteDescriptionSet(r) ==
  [r EXCEPT !.remoteDesc = "set", !.candidates = @ \cup r.queued, !.queued = {}]

(***************************************************************************)
(* CallService.handleIceCandidate (part_007:173-183).  Without a peer       *)
(* connection the candidate is ignored; addIceCandidate rejects while no    *)
(* remote description is set or pending, and the catch only logs.           *)
(***************************************************************************)
handleIceCandidate(r, c) ==
  LET seen == [r EXCEPT !.iceSeen = @ \cup {c}]
  IN IF ~seen.peerConnection THEN seen
     ELSE IF seen.remoteDesc = "set" THEN [seen EXCEPT !.candidates = @ \cup {c}]
     ELSE IF seen.remoteDesc = "pending" THEN [seen EXCEPT !.queued = @ \cup {c}]
     ELSE seen

(***************************************************************************)
(*                         The client's actions                            *)
(***************************************************************************)
uiVars == <<callService, incomingCallData, showCallModal, localStream,
            remoteStream, isCallConnected, ongoingCallType>>

ClientInit ==
  /\ wsRef \in {NULL, "ws"}
  /\ friend = NULL
  /\ callService = 0
  /\ callServiceRef = 0
  /\ incomingCallData = NoIncoming
  /\ showCallModal = FALSE
  /\ localStream = 0
  /\ remoteStream = 0
  /\ isCallConnected = FALSE
  /\ ongoingCallType = NULL
  /\ svc = <<>>
  /\ sent = EmptyBag

(***************************************************************************)
(* useEffect "Update refs whenever state changes" (chat-area.tsx:81-85).    *)
(* React runs the effect after the render that follows a state change, as   *)
(* a task of its own: what is already queued, a socket message or a due     *)
(* timer, can run before it.  Clicks, promises settling, media events and   *)
(* the passing of time wait for it (RefsCurrent).                           *)
(***************************************************************************)
RefsCurrent == callServiceRef = callService

\* the parent renders ChatArea with another conversation (chat-area.tsx:36); the
\* conversation list, like the call buttons, lies under the modal
selectFriend(f) ==
  /\ RefsCurrent
  /\ ~showCallModal
  /\ f # friend
  /\ friend' = f
  /\ UNCHANGED <<wsRef, callServiceRef, uiVars, svc, sent>>

updateRefs ==
  /\ callServiceRef # callService
  /\ callServiceRef' = callService
  /\ UNCHANGED <<wsRef, friend, uiVars, svc, sent>>

(***************************************************************************)
(* handleVoiceCall / handleVideoCall up to the first await                  *)
(* (chat-area.tsx:109-113, 136-140): initializeCallService (:87-107), then  *)
(* initializeCall starts getUserMedia (part_007:110, 283-288).  The call    *)
(* buttons lie under the modal, which covers the window (part_001:107-108): *)
(* they are pressed while no modal is shown.                                *)
(***************************************************************************)
startCall(video) ==
  /\ RefsCurrent
  /\ friend # NULL
  /\ ~showCallModal
  /\ Len(svc) < MaxServices
  /\ svc' = Append(svc, [NewService EXCEPT !.op = "init_media", !.peer = friend])
  /\ callService' = Len(svc) + 1
  /\ ongoingCallType' = IF video THEN "video" ELSE "voice"
  /\ UNCHANGED <<wsRef, friend, callServiceRef, incomingCallData, showCallModal,
                 localStream, remoteStream, isCallConnected, sent>>

handleVoiceCall == startCall(FALSE)

handleVideoCall == startCall(TRUE)

\* the catch of handleVoiceCall / handleVideoCall: a toast, nothing else
\* (chat-area.tsx:127-133, 154-160)
originateFailed(r) == Closures([r EXCEPT !.op = "failed"])

\* an initializeCall that goes on to the peer connection without a stream
initializeCall_media_ignoresDenial(s, ok) ==
  /\ RefsCurrent
  /\ svc[s].op = "init_media"
  /\ svc' = [svc EXCEPT ![s] =
               IF ok THEN [setupPeerConnection(@) EXCEPT !.op = "init_offer"]
               ELSE [@ EXCEPT !.peerConnection = TRUE, !.pcState = "open",
                              !.dataChannel = TRUE, !.dcState = "open",
                              !.op = "init_offer"]]
  /\ UNCHANGED <<wsRef, friend, callServiceRef, uiVars, sent>>

\* getUserMedia settles inside initializeCall (part_007:110-121)
initializeCall_media(s, ok) ==
  /\ RefsCurrent
  /\ svc[s].op = "init_media"
  /\ svc' = [svc EXCEPT ![s] =
               IF ok THEN [setupPeerConnection(@) EXCEPT !.op = "init_offer"]
               ELSE originateFailed(@)]
  /\ UNCHANGED <<wsRef, friend, callServiceRef, uiVars, sent>>

\* createOffer settles (part_007:121-122); on a closed connection it cannot succeed
initializeCall_offer(s, ok) ==
  /\ RefsCurrent
  /\ svc[s].op = "init_offer"
  /\ ok => svc[s].pcState = "open"
  /\ svc' = [svc EXCEPT ![s] =
               IF ok THEN [@ EXCEPT !.op = "init_setlocal"] ELSE originateFailed(@)]
  /\ UNCHANGED <<wsRef, friend, callServiceRef, uiVars, sent>>

\* setLocalDescription settles; setCallTimeout; initializeCall returns and
\* handleVoiceCall / handleVideoCall runs to its end
\* (part_007:122-130, chat-area.tsx:113-126, 140-153)
initializeCall_setLocal(s, ok) ==
  /\ RefsCurrent
  /\ svc[s].op = "init_setlocal"
  /\ ok => svc[s].pcState = "open"
  /\ IF ok
     THEN /\ svc' = [svc EXCEPT ![s] =
                 [setCallTimeout(@) EXCEPT !.op = "done", !.localDesc = "offer"]]
          /\ localStream' = IF svc[s].localStream THEN s ELSE 0
          /\ showCallModal' = TRUE
          /\ sent' = wsSend(sent, Frame("call-offer", svc[s].peer, NULL))
     ELSE /\ svc' = [svc EXCEPT ![s] = originateFailed(@)]
          /\ UNCHANGED <<localStream, showCallModal, sent>>
  /\ UNCHANGED <<wsRef, friend, callServiceRef, callService, incomingCallData,
                 remoteStream, isCallConnected, ongoingCallType>>

(***************************************************************************)
(* handleAcceptCall up to the first await (chat-area.tsx:163-166).  The     *)
(* Accept button exists only on the incoming screen of the modal            *)
(* (part_001:69-92).  A service runs handleOffer once: a second click while *)
(* the first is pending is not modelled.                                    *)
(***************************************************************************)
handleAcceptCall ==
  /\ RefsCurrent
  /\ showCallModal /\ incomingCallData.set /\ ~isCallConnected
  /\ callService # 0
  /\ svc[callService].op = "idle"
  /\ svc' = [svc EXCEPT ![callService] =
               [@ EXCEPT !.op = "offer_media",
                         !.peer = incomingCallData.fromUserId]]
  /\ UNCHANGED <<wsRef, friend, callServiceRef, uiVars, sent>>

\* the catch of handleAcceptCall: a toast, then handleDeclineCall of the same
\* render, whose callService is the service s (chat-area.tsx:178-185, 188-194)
acceptFailed(s) ==
  /\ svc' = [svc EXCEPT ![s] = endCall([@ EXCEPT !.op = "failed"])]
  /\ OnCallEnd
  /\ incomingCallData' = NoIncoming
  /\ UNCHANGED <<wsRef, friend, callServiceRef, sent>>

\* getUserMedia settles inside handleOffer (part_007:149-162)
handleOffer_media(s, ok) ==
  /\ RefsCurrent
  /\ svc[s].op = "offer_media"
  /\ IF ok
     THEN /\ svc' = [svc EXCEPT ![s] =
                 [setupPeerConnection(@) EXCEPT !.op = "offer_setremote",
                                                !.remoteDesc = "pending"]]
          /\ UNCHANGED <<wsRef, friend, callServiceRef, uiVars, sent>>
     ELSE acceptFailed(s)

\* setRemoteDescription(offer) settles (part_007:160-164)
handleOffer_setRemote(s, ok) ==
  /\ RefsCurrent
  /\ svc[s].op = "offer_setremote"
  /\ ok => svc[s].pcState = "open"
  /\ IF ok
     THEN /\ svc' = [svc EXCEPT ![s] =
                 [remoteDescriptionSet(@) EXCEPT !.op = "offer_answer"]]
          /\ UNCHANGED <<wsRef, friend, callServiceRef, uiVars, sent>>
     ELSE acceptFailed(s)

\* createAnswer settles (part_007:164-165)
handleOffer_answer(s, ok) ==
  /\ RefsCurrent
  /\ svc[s].op = "offer_answer"
  /\ ok => svc[s].pcState = "open"
  /\ IF ok
     THEN /\ svc' = [svc EXCEPT ![s].op = "offer_setlocal"]
          /\ UNCHANGED <<wsRef, friend, callServiceRef, uiVars, sent>>
     ELSE acceptFailed(s)

\* setLocalDescription(answer) settles; setCallTimeout; handleOffer returns and
\* handleAcceptCall runs to its end (part_007:165-170, chat-area.tsx:166-177)
handleOffer_setLocal(s, ok) ==
  /\ RefsCurrent
  /\ svc[s].op = "offer_setlocal"
  /\ ok => svc[s].pcState = "open"
  /\ IF ok
     THEN /\ svc' = [svc EXCEPT ![s] =
                 [setCallTimeout(@) EXCEPT !.op = "done", !.localDesc = "answer"]]
          /\ localStream' = IF svc[s].localStream THEN s ELSE 0
          /\ isCallConnected' = TRUE
          /\ sent' = wsSend(sent, Frame("call-answer", svc[s].peer, NULL))
          /\ incomingCallData' = NoIncoming
          /\ UNCHANGED <<wsRef, friend, callServiceRef, callService, showCallModal,
                         remoteStream, ongoingCallType>>
     ELSE acceptFailed(s)

\* handleDeclineCall, from the Decline button of the incoming screen
\* (chat-area.tsx:188-194, part_001:93-100)
handleDeclineCall ==
  /\ RefsCurrent
  /\ showCallModal /\ incomingCallData.set /\ ~isCallConnected
  /\ IF callService # 0
     THEN /\ svc' = [svc EXCEPT ![callService] = endCall(@)]
          /\ OnCallEnd
     ELSE UNCHANGED <<svc, callService, showCallModal, localStream, remoteStream,
                      isCallConnected, ongoingCallType>>
  /\ incomingCallData' = NoIncoming
  /\ UNCHANGED <<wsRef, friend, callServiceRef, sent>>

\* handleEndCall, from the End button of the ongoing screen
\* (chat-area.tsx:196-214, part_001:107-172)
handleEndCall ==
  /\ RefsCurrent
  /\ showCallModal /\ ~(incomingCallData.set /\ ~isCallConnected)
  /\ callService # 0
  /\ \/ /\ incomingCallData.set
        /\ sent' = wsSend(sent, Frame("call-end", incomingCallData.fromUserId, NULL))
     \/ /\ ~incomingCallData.set
        /\ friend # NULL
        /\ sent' = wsSend(sent, Frame("call-end", friend, NULL))
  /\ svc' = [svc EXCEPT ![callService] = endCall(@)]
  /\ OnCallEnd
  /\ UNCHANGED <<wsRef, friend, callServiceRef, incomingCallData>>

(***************************************************************************)
(* handleCallMessage (chat-area.tsx:222-290).  The listener is attached at  *)
(* mount, and only when the component was given a socket (:223).  A frame   *)
(* that finds callServiceRef.current null (or, for incoming-call, not null) *)
(* changes nothing and is no step of the model.                             *)
(***************************************************************************)
onIncomingCall(from, video) ==
  /\ wsRef # NULL
  /\ callServiceRef = 0
  /\ Len(svc) < MaxServices
  /\ svc' = Append(svc, NewService)
  /\ callService' = Len(svc) + 1
  /\ callServiceRef' = Len(svc) + 1
  /\ ongoingCallType' = IF video THEN "video" ELSE "voice"
  /\ incomingCallData' = [set |-> TRUE, fromUserId |-> from]
  /\ showCallModal' = TRUE
  /\ UNCHANGED <<wsRef, friend, localStream, remoteStream, isCallConnected, sent>>

\* call-answer (chat-area.tsx:257-263) into handleAnswer (part_007:133-137).
\* setRemoteDescription(answer) is accepted by a connection that holds its own
\* offer and no remote description; otherwise it rejects and the catch logs.
onCallAnswer ==
  /\ wsRef # NULL
  /\ callServiceRef # 0
  /\ LET s == callServiceRef
     IN \/ /\ svc[s].peerConnection
           /\ svc[s].localDesc = "offer" /\ svc[s].remoteDesc = "none"
           /\ svc' = [svc EXCEPT ![s] = [@ EXCEPT !.remoteDesc = "pending", !.ansOp = TRUE]]
           /\ UNCHANGED isCallConnected
        \/ /\ ~svc[s].peerConnection
           /\ isCallConnected' = TRUE
           /\ UNCHANGED svc
  /\ UNCHANGED <<wsRef, friend, callServiceRef, callService, incomingCallData,
                 showCallModal, localStream, remoteStream, ongoingCallType, sent>>

\* setRemoteDescription(answer) settles: clearCallTimeout, then
\* setIsCallConnected(true) (part_007:135-140, chat-area.tsx:260-261)
handleAnswer_setRemote(s, ok) ==
  /\ RefsCurrent
  /\ svc[s].ansOp
  /\ ok => svc[s].pcState = "open"
  /\ IF ok
     THEN /\ svc' = [svc EXCEPT ![s] =
                 [clearCallTimeout(remoteDescriptionSet(@)) EXCEPT !.ansOp = FALSE]]
          /\ isCallConnected' = TRUE
     ELSE /\ svc' = [svc EXCEPT ![s] =
                 [@ EXCEPT !.ansOp = FALSE, !.remoteDesc = "none", !.queued = {}]]
          /\ UNCHANGED isCallConnected
  /\ UNCHANGED <<wsRef, friend, callServiceRef, callService, incomingCallData,
                 showCallModal, localStream, remoteStream, ongoingCallType, sent>>

\* ice-candidate (chat-area.tsx:265-269); each candidate is delivered once
onIceCandidate(c) ==
  /\ wsRef # NULL
  /\ callServiceRef # 0
  /\ \A s \in Services : c \notin svc[s].iceSeen
  /\ svc' = [svc EXCEPT ![callServiceRef] = handleIceCandidate(@, c)]
  /\ UNCHANGED <<wsRef, friend, callServiceRef, uiVars, sent>>

\* call-ended (chat-area.tsx:271-276)
onCallEnded ==
  /\ wsRef # NULL
  /\ callServiceRef # 0
  /\ svc' = [svc EXCEPT ![callServiceRef] = endCall(@)]
  /\ OnCallEnd
  /\ UNCHANGED <<wsRef, friend, callServiceRef, incomingCallData, sent>>

\* a timer whose callback runs before its delay has elapsed
callTimeoutFires_early(s) ==
  /\ svc[s].callTimeout
  /\ sent' = wsSend(sent, TimeoutSignal(svc[s]))
  /\ svc' = [svc EXCEPT ![s] = [endCall(@) EXCEPT !.timerFired = Cap2(@)]]
  /\ OnCallEnd
  /\ UNCHANGED <<wsRef, friend, callServiceRef, incomingCallData>>

\* a timer callback that signals the timeout and leaves the call up
callTimeoutFires_noTeardown(s) ==
  /\ svc[s].callTimeout /\ svc[s].remaining = 0
  /\ sent' = wsSend(sent, TimeoutSignal(svc[s]))
  /\ svc' = [svc EXCEPT ![s] = [clearCallTimeout(@) EXCEPT !.timerFired = Cap2(@)]]
  /\ UNCHANGED <<wsRef, friend, callServiceRef, uiVars>>

(***************************************************************************)
(* The ringing timer's callback (part_007:300-309): onSignal, which writes  *)
(* to the socket when there is one (chat-area.tsx:90-94), then endCall.     *)
(***************************************************************************)
callTimeoutFires(s) ==
  /\ svc[s].callTimeout /\ svc[s].remaining = 0
  /\ sent' = wsSend(sent, TimeoutSignal(svc[s]))
  /\ svc' = [svc EXCEPT ![s] = [endCall(@) EXCEPT !.timerFired = Cap2(@)]]
  /\ OnCallEnd
  /\ UNCHANGED <<wsRef, friend, callServiceRef, incomingCallData>>

\* TickMs pass; a timer that is due fires before more time passes
Tick ==
  /\ RefsCurrent
  /\ \E s \in Services : svc[s].callTimeout
  /\ \A s \in Services : svc[s].callTimeout => svc[s].remaining >= TickMs
  /\ svc' = [s \in Services |->
               IF svc[s].callTimeout
               THEN [svc[s] EXCEPT !.remaining = @ - TickMs] ELSE svc[s]]
  /\ UNCHANGED <<wsRef, friend, callServiceRef, uiVars, sent>>

(***************************************************************************)
(* Events of the peer connection (part_007:211-255).  They need both        *)
(* descriptions: the transport starts only then.                            *)
(***************************************************************************)
ontrack(s) ==
  /\ RefsCurrent
  /\ svc[s].pcState = "open" /\ svc[s].remoteDesc = "set"
  /\ svc[s].remoteTrack = "none"
  /\ svc' = [svc EXCEPT ![s] =
               [clearCallTimeout(@) EXCEPT !.remoteStream = TRUE, !.remoteTrack = "live"]]
  /\ remoteStream' = s
  /\ UNCHANGED <<wsRef, friend, callServiceRef, callService, incomingCallData,
                 showCallModal, localStream, isCallConnected, ongoingCallType, sent>>

\* a handler that keeps the call up whatever the connection reports
onconnectionstatechange_keepsCall(s, state) ==
  /\ RefsCurrent
  /\ svc[s].pcState = "open" /\ svc[s].remoteDesc = "set" /\ svc[s].localDesc # "none"
  /\ state = "connected" => ~svc[s].connected
  /\ state = "disconnected" => svc[s].connected
  /\ svc' = [svc EXCEPT ![s] =
               IF state = "connected"
                 THEN [clearCallTimeout(@) EXCEPT !.connected = TRUE]
                 ELSE [@ EXCEPT !.connected = FALSE, !.remoteDesc = "none"]]
  /\ UNCHANGED <<wsRef, friend, callServiceRef, uiVars, sent>>

\* onconnectionstatechange (part_007:238-255): failed or disconnected end
\* the call, connected clears the timer.  The state 'closed' is reached by
\* close() alone, which fires no event.
onconnectionstatechange(s, state) ==
  /\ RefsCurrent
  /\ svc[s].pcState = "open" /\ svc[s].remoteDesc = "set" /\ svc[s].localDesc # "none"
  /\ state = "connected" => ~svc[s].connected
  /\ state = "disconnected" => svc[s].connected
  /\ IF state = "connected"
     THEN /\ svc' = [svc EXCEPT ![s] = [clearCallTimeout(@) EXCEPT !.connected = TRUE]]
          /\ UNCHANGED uiVars
     ELSE /\ svc' = [svc EXCEPT ![s] = endCall(@)]
          /\ OnCallEnd
          /\ UNCHANGED incomingCallData
  /\ UNCHANGED <<wsRef, friend, callServiceRef, sent>>

Next ==
  \/ \E f \in Peers \cup {NULL} : selectFriend(f)
       /\ UNCHANGED <<serverVars, signals, typingVars>>
  \/ updateRefs
       /\ UNCHANGED <<serverVars, signals, typingVars>>
  \/ handleVoiceCall
       /\ UNCHANGED <<serverVars, signals, typingVars>>
  \/ handleVideoCall
       /\ UNCHANGED <<serverVars, signals, typingVars>>
  \/ \E s \in Services, ok \in BOOLEAN : initializeCall_media(s, ok)
       /\ UNCHANGED <<serverVars, signals, typingVars>>
  \/ \E s \in Services, ok \in BOOLEAN : initializeCall_offer(s, ok)
       /\ UNCHANGED <<serverVars, signals, typingVars>>
  \/ \E s \in Services, ok \in BOOLEAN : initializeCall_setLocal(s, ok)
       /\ UNCHANGED <<serverVars, signals, typingVars>>
  \/ handleAcceptCall
       /\ UNCHANGED <<serverVars, signals, typingVars>>
  \/ \E s \in Services, ok \in BOOLEAN : handleOffer_media(s, ok)
       /\ UNCHANGED <<serverVars, signals, typingVars>>
  \/ \E s \in Services, ok \in BOOLEAN : handleOffer_setRemote(s, ok)
       /\ UNCHANGED <<serverVars, signals, typingVars>>
  \/ \E s \in Services, ok \in BOOLEAN : handleOffer_answer(s, ok)
       /\ UNCHANGED <<serverVars, signals, typingVars>>
  \/ \E s \in Services, ok \in BOOLEAN : handleOffer_setLocal(s, ok)
       /\ UNCHANGED <<serverVars, signals, typingVars>>
  \/ handleDeclineCall
       /\ UNCHANGED <<serverVars, signals, typingVars>>
  \/ handleEndCall
       /\ UNCHANGED <<serverVars, signals, typingVars>>
  \/ \E from \in Peers, video \in BOOLEAN : onIncomingCall(from, video)
       /\ UNCHANGED <<serverVars, signals, typingVars>>
  \/ onCallAnswer
       /\ UNCHANGED <<serverVars, signals, typingVars>>
  \/ \E s \in Services, ok \in BOOLEAN : handleAnswer_setRemote(s, ok)
       /\ UNCHANGED <<serverVars, signals, typingVars>>
  \/ \E c \in Candidates : onIceCandidate(c)
       /\ UNCHANGED <<serverVars, signals, typingVars>>
  \/ onCallEnded
       /\ UNCHANGED <<serverVars, signals, typingVars>>
  \/ \E s \in Services : callTimeoutFires(s)
       /\ UNCHANGED <<serverVars, signals, typingVars>>
  \/ Tick
       /\ UNCHANGED <<serverVars, signals, typingVars>>
  \/ \E s \in Services : ontrack(s)
       /\ UNCHANGED <<serverVars, signals, typingVars>>
  \/ \E s \in Services, state \in {"connected", "disconnected", "failed"} :
       onconnectionstatechange(s, state)
       /\ UNCHANGED <<serverVars, signals, typingVars>>

(***************************************************************************)
(*        Server: connection registry, presence and message fan-out        *)
(***************************************************************************)

(***************************************************************************)
(* connectedUsers is a JavaScript Map (routes.ts:8), kept here as the set  *)
(* of its <<key, value>> entries so that the number of entries under one   *)
(* key is something to be checked and not a property of the notation.      *)
(* Connections are numbered; 0 stands for undefined.                       *)
(***************************************************************************)
MapHas(m, k) == \E e \in m : e[1] = k

MapGet(m, k) == IF MapHas(m, k) THEN (CHOOSE e \in m : e[1] = k)[2] ELSE 0

MapSet_keepsOldEntry(m, k, v) == m \cup {<<k, v>>}

MapSet(m, k, v) == {e \in m : e[1] # k} \cup {<<k, v>>}

MapDelete(m, k) == {e \in m : e[1] # k}

\* wss.on('connection'): the closure variable userId starts null
\* (routes.ts:570-571).  The counters record what the handlers of this
\* connection have done.
NewSocket ==
  [ readyState |-> "none",    \* none (not accepted yet) / open / closing / closed
    userId |-> NULL,
    auths |-> 0,              \* auth frames handled
    onlineCalls |-> 0,        \* updateUserStatus(.., "online") calls made
    deleteCalls |-> 0,        \* connectedUsers.delete calls made
    offlineCalls |-> 0,       \* updateUserStatus(.., "offline") calls made
    errors |-> 0 ]            \* 'error' events handled

\* storage.updateUserStatus(id, status) is called; the UPDATE settles later.
updateUserStatus(calls, id, status) ==
  calls (+) SetToBag({[id |-> id, status |-> status]})

\* memberWs && memberWs.readyState === WebSocket.OPEN (routes.ts:267, 296)
canSend_ignoresReadyState(ws) == ws # 0

canSend(ws) == ws # 0 /\ sockets[ws].readyState = "open"

\* areFriends && areFriends.status === "accepted" (routes.ts:285, negated)
isAccepted_anyFriendship(areFriends) == areFriends # NULL

isAccepted(areFriends) == areFriends = "accepted"

\* what storage.getFriendship can resolve to: no row, or a row's status
Friendships == {NULL, "pending", "accepted"}

\* JSON.stringify({type: "new_message", ...}) handed to ws.send; the record
\* keeps the member it was looked up for and the socket's readyState then.
NewMessageFrame(r, to, ws) ==
  [ type |-> "new_message", req |-> r, senderId |-> requests[r].userId,
    to |-> to, ws |-> ws, readyState |-> sockets[ws].readyState ]

ServerInit ==
  /\ connectedUsers = {}
  /\ sockets = [c \in Conns |-> NewSocket]
  /\ statusCalls = EmptyBag
  /\ users = [u \in Users |-> "offline"]
  /\ requests = <<>>
  /\ messages = <<>>
  /\ wsFrames = EmptyBag
  /\ signals = 0

\* wss.on('connection', (ws) => ...) (routes.ts:570-599): a socket is accepted
connection(c) ==
  /\ sockets[c].readyState = "none"
  /\ \A d \in Conns : d < c => sockets[d].readyState # "none"
  /\ sockets' = [sockets EXCEPT ![c].readyState = "open"]
  /\ UNCHANGED <<connectedUsers, statusCalls, users, requests, messages,
                 wsFrames>>

\* auth frames handled so far, over all connections
AuthsHandled ==
  Cardinality({p \in Conns \X (1..MaxAuths) : p[2] <= sockets[p[1]].auths})

\* ws.on('message') with {type: 'auth', userId: id} (routes.ts:573-587)
onMessage_auth(c, id) ==
  /\ sockets[c].readyState = "open"
  /\ AuthsHandled < MaxAuths
  /\ connectedUsers' = MapSet(connectedUsers, id, c)
  /\ statusCalls' = updateUserStatus(statusCalls, id, "online")
  /\ sockets' = [sockets EXCEPT ![c].userId = id, ![c].auths = @ + 1,
                                ![c].onlineCalls = @ + 1]
  /\ UNCHANGED <<users, requests, messages, wsFrames>>

\* the types of the signaling frames a client writes (chat-area.tsx:117-126,
\* 170-176, 198-203; part_007:202-207, 302-307)
SignalTypes == {"call-offer", "call-answer", "ice-candidate", "call-end"}

\* ws.on('message') with a frame of another type than auth (routes.ts:573-
\* 587): the frame is parsed, the test of :577 fails and the handler returns.
\* Nothing is written to any connection.
onMessage_signal(c, type, to) ==
  /\ sockets[c].readyState = "open"
  /\ signals < MaxSignals
  /\ signals' = signals + 1
  /\ UNCHANGED serverVars

\* The socket leaves OPEN before its 'close' event is emitted (a close frame
\* arrived, the peer went away): readyState is CLOSING, as read at
\* routes.ts:267 and :296.
closing(c) ==
  /\ sockets[c].readyState = "open"
  /\ sockets' = [sockets EXCEPT ![c].readyState = "closing"]
  /\ UNCHANGED <<connectedUsers, statusCalls, users, requests, messages,
                 wsFrames>>

\* A variant of onError that unbinds as the close handler does.
onError_unbinds(c) ==
  /\ sockets[c].readyState = "open"
  /\ sockets[c].errors = 0
  /\ IF sockets[c].userId # NULL
       THEN /\ connectedUsers' = MapDelete(connectedUsers, sockets[c].userId)
            /\ statusCalls' =
                 updateUserStatus(statusCalls, sockets[c].userId, "offline")
            /\ sockets' = [sockets EXCEPT ![c].readyState = "closing",
                                          ![c].errors = 1,
                                          ![c].deleteCalls = @ + 1,
                                          ![c].offlineCalls = @ + 1]
       ELSE /\ sockets' = [sockets EXCEPT ![c].readyState = "closing",
                                          ![c].errors = 1]
            /\ UNCHANGED <<connectedUsers, statusCalls>>
  /\ UNCHANGED <<users, requests, messages, wsFrames>>

\* ws.on('error') (routes.ts:596-598): logs; the socket is on its way to
\* closed and its 'close' event follows.
onError(c) ==
  /\ sockets[c].readyState = "open"
  /\ sockets[c].errors = 0
  /\ sockets' = [sockets EXCEPT ![c].readyState = "closing", ![c].errors = 1]
  /\ UNCHANGED <<connectedUsers, statusCalls, users, requests, messages,
                 wsFrames>>

\* ws.on('close') (routes.ts:589-594)
onClose(c) ==
  /\ sockets[c].readyState \in {"open", "closing"}
  /\ IF sockets[c].userId # NULL
       THEN /\ connectedUsers' = MapDelete(connectedUsers, sockets[c].userId)
            /\ statusCalls' =
                 updateUserStatus(statusCalls, sockets[c].userId, "offline")
            /\ sockets' = [sockets EXCEPT ![c].readyState = "closed",
                                          ![c].deleteCalls = @ + 1,
                                          ![c].offlineCalls = @ + 1]
       ELSE /\ sockets' = [sockets EXCEPT ![c].readyState = "closed"]
            /\ UNCHANGED <<connectedUsers, statusCalls>>
  /\ UNCHANGED <<users, requests, messages, wsFrames>>

\* The UPDATE of one updateUserStatus call reaches the users table
\* (storage.ts:57-62); calls in flight settle in any order.
updateUserStatus_settles(call) ==
  /\ BagIn(call, statusCalls)
  /\ users' = [users EXCEPT ![call.id] = call.status]
  /\ statusCalls' = statusCalls (-) SetToBag({call})
  /\ UNCHANGED <<connectedUsers, sockets, requests, messages, wsFrames>>

(***************************************************************************)
(* POST /api/messages (routes.ts:231-311).  A request record holds the     *)
(* handler's local variables and the await it is suspended at (pc):        *)
(*   getFriendship / getGroupMembers / createMessage / getAllMembers /     *)
(*   getUser / done.                                                       *)
(* status is the response sent: 0 while none has been sent.                *)
(***************************************************************************)
Request(userId, receiverId, groupId, pc, status) ==
  [ userId |-> userId, receiverId |-> receiverId, groupId |-> groupId,
    pc |-> pc, status |-> status,
    areFriends |-> NULL,      \* the friendship row's status (line 284)
    groupMembers |-> {},      \* first getGroupMembers (line 249)
    allMembers |-> {},        \* second getGroupMembers (line 262)
    receiverWs |-> 0 ]        \* connectedUsers.get(receiverId) (line 295)

Requests == 1..Len(requests)

\* The request arrives: lines 232-249 or 232-284, up to the first await.
\* The record keeps of the request only what the handler goes on to read.
postMessage(userId, content, receiverId, groupId) ==
  /\ Len(requests) < MaxRequests
  /\ requests' = Append(requests,
       IF userId = NULL THEN Request(NULL, NULL, NULL, "done", 401)
       ELSE IF ~content THEN Request(userId, NULL, NULL, "done", 400)
       ELSE IF receiverId = NULL /\ groupId = NULL
         THEN Request(userId, NULL, NULL, "done", 400)
       ELSE IF groupId # NULL
         THEN Request(userId, NULL, groupId, "getGroupMembers", 0)
       ELSE Request(userId, receiverId, NULL, "getFriendship", 0))
  /\ UNCHANGED <<connectedUsers, sockets, statusCalls, users, messages,
                 wsFrames>>

\* storage.getGroupMembers resolves; membership check (lines 249-255)
getGroupMembers_resolves(r, members) ==
  /\ requests[r].pc = "getGroupMembers"
  /\ requests' = [requests EXCEPT ![r] =
       IF requests[r].userId \in members
         THEN [@ EXCEPT !.groupMembers = members, !.pc = "createMessage"]
         ELSE [@ EXCEPT !.groupMembers = members, !.pc = "done",
                        !.status = 403]]
  /\ UNCHANGED <<connectedUsers, sockets, statusCalls, users, messages,
                 wsFrames>>

\* storage.getFriendship resolves; friendship check (lines 284-289)
getFriendship_resolves(r, areFriends) ==
  /\ requests[r].pc = "getFriendship"
  /\ requests' = [requests EXCEPT ![r] =
       IF isAccepted(areFriends)
         THEN [@ EXCEPT !.areFriends = areFriends, !.pc = "createMessage"]
         ELSE [@ EXCEPT !.areFriends = areFriends, !.pc = "done",
                        !.status = 403]]
  /\ UNCHANGED <<connectedUsers, sockets, statusCalls, users, messages,
                 wsFrames>>

\* storage.createMessage resolves with the inserted row.  Group: on to the
\* second getGroupMembers (lines 255-262).  Direct: the registry lookup and
\* the readyState test, then either await getUser or respond (lines 289-307).
createMessage_resolves(r) ==
  /\ requests[r].pc = "createMessage"
  /\ messages' = Append(messages,
       [ req |-> r, senderId |-> requests[r].userId,
         receiverId |-> requests[r].receiverId,
         groupId |-> requests[r].groupId ])
  /\ requests' = [requests EXCEPT ![r] =
       IF requests[r].groupId # NULL
         THEN [@ EXCEPT !.pc = "getAllMembers"]
         ELSE LET receiverWs == MapGet(connectedUsers, requests[r].receiverId)
              IN  IF canSend(receiverWs)
                    THEN [@ EXCEPT !.receiverWs = receiverWs, !.pc = "getUser"]
                    ELSE [@ EXCEPT !.receiverWs = receiverWs, !.pc = "done",
                                   !.status = 200]]
  /\ UNCHANGED <<connectedUsers, sockets, statusCalls, users, wsFrames>>

\* the second storage.getGroupMembers resolves (lines 262-263)
getAllMembers_resolves(r, members) ==
  /\ requests[r].pc = "getAllMembers"
  /\ requests' = [requests EXCEPT ![r].allMembers = members, ![r].pc = "getUser"]
  /\ UNCHANGED <<connectedUsers, sockets, statusCalls, users, messages,
                 wsFrames>>

\* the members a group message is broadcast to: allMembers.forEach (line 265)
broadcastTargets_withoutSender(r) ==
  requests[r].allMembers \ {requests[r].userId}

broadcastTargets(r) == requests[r].allMembers

\* a broadcast that writes to every registered member without the readyState
\* test: the write to a connection that is not open throws, the loop stops
\* and the catch answers 400
getUser_resolves_abortsOnFailure(r, throws) ==
  /\ requests[r].pc = "getUser"
  /\ IF requests[r].groupId # NULL
       THEN /\ ~throws
            /\ IF \E n \in broadcastTargets(r) :
                    MapHas(connectedUsers, n) /\ ~canSend(MapGet(connectedUsers, n))
                 THEN /\ wsFrames' = wsFrames
                      /\ requests' = [requests EXCEPT ![r].pc = "done",
                                                      ![r].status = 400]
                 ELSE /\ wsFrames' = wsFrames (+) SetToBag(
                           { NewMessageFrame(r, m, MapGet(connectedUsers, m)) :
                               m \in { n \in broadcastTargets(r) :
                                         canSend(MapGet(connectedUsers, n)) } })
                      /\ requests' = [requests EXCEPT ![r].pc = "done",
                                                      ![r].status = 200]
       ELSE /\ throws => sockets[requests[r].receiverWs].readyState # "open"
            /\ wsFrames' = wsFrames (+) SetToBag(
                 { NewMessageFrame(r, requests[r].receiverId,
                                   requests[r].receiverWs) })
            /\ requests' = [requests EXCEPT ![r].pc = "done",
                 ![r].status = IF throws THEN 400 ELSE 200]
  /\ UNCHANGED <<connectedUsers, sockets, statusCalls, users, messages>>

\* storage.getUser resolves.  Group: the forEach over allMembers, each with
\* its own lookup and readyState test, then the response (lines 263-280).
\* Direct: receiverWs.send on the socket looked up before the await, then
\* the response (lines 297-307).  The socket may have left OPEN meanwhile:
\* ws.send then writes nothing and, depending on the ws version, throws,
\* which the catch turns into a 400 (lines 308-310).
getUser_resolves(r, throws) ==
  /\ requests[r].pc = "getUser"
  /\ IF requests[r].groupId # NULL
       THEN /\ ~throws
            /\ wsFrames' = wsFrames (+) SetToBag(
                 { NewMessageFrame(r, m, MapGet(connectedUsers, m)) :
                     m \in { n \in broadcastTargets(r) :
                               canSend(MapGet(connectedUsers, n)) } })
            /\ requests' = [requests EXCEPT ![r].pc = "done", ![r].status = 200]
       ELSE /\ throws => sockets[requests[r].receiverWs].readyState # "open"
            /\ wsFrames' = wsFrames (+) SetToBag(
                 { NewMessageFrame(r, requests[r].receiverId,
                                   requests[r].receiverWs) })
            /\ requests' = [requests EXCEPT ![r].pc = "done",
                 ![r].status = IF throws THEN 400 ELSE 200]
  /\ UNCHANGED <<connectedUsers, sockets, statusCalls, users, messages>>

NextServer ==
  \/ \E c \in Conns : connection(c)
       /\ UNCHANGED <<clientVars, signals, typingVars>>
  \/ \E c \in Conns, id \in Users : onMessage_auth(c, id)
       /\ UNCHANGED <<clientVars, signals, typingVars>>
  \/ \E c \in Conns, type \in SignalTypes, to \in Users :
       onMessage_signal(c, type, to)
       /\ UNCHANGED <<clientVars, typingVars>>
  \/ \E c \in Conns : closing(c)
       /\ UNCHANGED <<clientVars, signals, typingVars>>
  \/ \E c \in Conns : onError(c)
       /\ UNCHANGED <<clientVars, signals, typingVars>>
  \/ \E c \in Conns : onClose(c)
       /\ UNCHANGED <<clientVars, signals, typingVars>>
  \/ \E call \in BagToSet(statusCalls) : updateUserStatus_settles(call)
       /\ UNCHANGED <<clientVars, signals, typingVars>>
  \/ \E userId \in Senders \cup {NULL}, content \in BOOLEAN,
        receiverId \in Users \cup {NULL}, groupId \in {NULL, "G"} :
       postMessage(userId, content, receiverId, groupId)
       /\ UNCHANGED <<clientVars, signals, typingVars>>
  \/ \E r \in Requests, members \in SUBSET Users :
       getGroupMembers_resolves(r, members)
       /\ UNCHANGED <<clientVars, signals, typingVars>>
  \/ \E r \in Requests, areFriends \in Friendships :
       getFriendship_resolves(r, areFriends)
       /\ UNCHANGED <<clientVars, signals, typingVars>>
  \/ \E r \in Requests : createMessage_resolves(r)
       /\ UNCHANGED <<clientVars, signals, typingVars>>
  \/ \E r \in Requests, members \in SUBSET Users :
       getAllMembers_resolves(r, members)
       /\ UNCHANGED <<clientVars, signals, typingVars>>
  \/ \E r \in Requests, throws \in BOOLEAN : getUser_resolves(r, throws)
       /\ UNCHANGED <<clientVars, signals, typingVars>>

(***************************************************************************)
(*               Client: the typing indicator of ChatArea                  *)
(***************************************************************************)

NoTimeout == [set |-> FALSE, to |-> NULL]

TypingFrame(to, typing) == [type |-> "typing", toUserId |-> to, isTyping |-> typing]

\* wsRef.current.send(...) behind `if (wsRef.current && (friend || group))`
\* (chat-area.tsx:314-321, 329-336); to is the friend of the render the
\* caller belongs to.  The conversations here are with friends.
typingSend(out, to, typing) ==
  IF wsRef # NULL /\ to # NULL THEN Append(out, TypingFrame(to, typing)) ELSE out

TypingInit ==
  /\ messageInput = 0
  /\ isTyping = FALSE
  /\ typingTimeoutRef = NoTimeout
  /\ typingSent = <<>>
  /\ typingUsers = {}

\* handleTyping, the input's onChange (chat-area.tsx:309-341); value is the
\* length of the new content, 0 for a blank one
handleTyping(value) ==
  /\ value # messageInput
  /\ Len(typingSent) < MaxTypingFrames
  /\ messageInput' = value
  /\ IF ~isTyping /\ value # 0
       THEN typingSent' = typingSend(typingSent, friend, TRUE)
       ELSE UNCHANGED typingSent
  /\ IF value # 0
       THEN /\ isTyping' = TRUE
            /\ typingTimeoutRef' = [set |-> TRUE, to |-> friend]
       ELSE /\ isTyping' = FALSE
            /\ typingTimeoutRef' = NoTimeout
  /\ UNCHANGED <<clientVars, typingUsers>>

\* the callback of the typing timer (chat-area.tsx:327-337)
typingTimeoutFires ==
  /\ typingTimeoutRef.set
  /\ isTyping' = FALSE
  /\ typingSent' = typingSend(typingSent, typingTimeoutRef.to, FALSE)
  /\ typingTimeoutRef' = NoTimeout
  /\ UNCHANGED <<clientVars, messageInput, typingUsers>>

\* handleSubmit with a non-blank input while nothing is being sent
\* (chat-area.tsx:300-307); the timer is left as it is
handleSubmit ==
  /\ messageInput # 0
  /\ messageInput' = 0
  /\ isTyping' = FALSE
  /\ UNCHANGED <<clientVars, typingTimeoutRef, typingSent, typingUsers>>

\* a typing or group-typing frame arrives (chat-area.tsx:485-506)
onTyping(fromUserId, typing) ==
  /\ wsRef # NULL
  /\ typingUsers' = IF typing THEN typingUsers \cup {fromUserId}
                              ELSE typingUsers \ {fromUserId}
  /\ typingUsers' # typingUsers
  /\ UNCHANGED <<clientVars, messageInput, isTyping, typingTimeoutRef, typingSent>>

NextTyping ==
  \/ \E f \in Peers \cup {NULL} : selectFriend(f)
       /\ UNCHANGED <<serverVars, signals, typingVars>>
  \/ \E value \in 0..MaxInput : handleTyping(value)
       /\ UNCHANGED <<serverVars, signals>>
  \/ typingTimeoutFires
       /\ UNCHANGED <<serverVars, signals>>
  \/ handleSubmit
       /\ UNCHANGED <<serverVars, signals>>
  \/ \E fromUserId \in Peers, typing \in BOOLEAN : onTyping(fromUserId, typing)
       /\ UNCHANGED <<serverVars, signals>>

Init == ClientInit /\ ServerInit /\ TypingInit

Spec == Init /\ [][Next]_vars

InitServer == Init /\ wsRef = NULL

SpecServer == InitServer /\ [][NextServer]_vars

SpecTyping == Init /\ [][NextTyping]_vars

(***************************************************************************)
(*                    Claims about the call coordinator                    *)
(***************************************************************************)

\* C1: every ice-candidate handed to a service is among the candidates of its
\* peer connection once the remote description is set: none is dropped because
\* it arrived before the remote description (callee: before the call was
\* accepted; caller: before the call-answer was applied).
C1_NoCandidateDropped ==
  \A s \in Services :
    (svc[s].pcState = "open" /\ svc[s].remoteDesc = "set")
      => svc[s].iceSeen \subseteq svc[s].candidates

\* a call has reached a terminal state: endCall ran on it, or originate or
\* accept threw
Terminal(r) == r.endCalls > 0 \/ r.op = "failed"

Released(r) ==
  /\ r.localTrack # "live"
  /\ r.remoteTrack # "live"
  /\ r.pcState # "open"
  /\ r.dcState # "open"
  /\ ~r.callTimeout

\* C2: in every terminal state of a call no local or remote track is live, the
\* peer connection and the data channel are closed and no ringing timer is
\* pending.
C2_TerminalReleased == \A s \in Services : Terminal(svc[s]) => Released(svc[s])

\* C3: however often endCall is invoked on a service, each media track is
\* stopped once and the peer connection and the data channel are closed once:
\* a further invocation releases nothing again (and endCall has no throwing
\* path: every release is behind a null test).
C3_TeardownReleasesOnce ==
  \A s \in Services :
    /\ svc[s].localStops = (IF svc[s].localTrack = "stopped" THEN 1 ELSE 0)
    /\ svc[s].remoteStops = (IF svc[s].remoteTrack = "stopped" THEN 1 ELSE 0)
    /\ svc[s].pcCloses = (IF svc[s].pcState = "closed" THEN 1 ELSE 0)
    /\ svc[s].dcCloses <= 1

\* endCall was invoked twice on a service that held a stream and a connection
C3_Witness ==
  \E s \in Services :
    /\ svc[s].endCalls = 2
    /\ svc[s].localStops = 1 /\ svc[s].pcCloses = 1 /\ svc[s].dcCloses = 1

\* the caller is ringing: its offer is set and no answer has been applied
Ringing(r) == r.pcState = "open" /\ r.localDesc = "offer" /\ r.remoteDesc # "set"

\* C4: a ringing caller always has its timer pending, started at 60,000 ms; the
\* timer fires once per service, only when the 60,000 ms have run out and (on the
\* caller) no answer has been applied, and its firing hands the call-end frame
\* with reason "timeout" for the callee to the socket, ends the call and stops
\* the local tracks.
C4_RingingTimeout ==
  /\ [](\A s \in Services : Ringing(svc[s]) => svc[s].callTimeout)
  /\ [][\A s \in Services :
          /\ (svc[s].op = "init_setlocal" /\ svc'[s].op = "done")
               => (svc'[s].callTimeout /\ svc'[s].remaining = 60000)
          /\ (svc'[s].timerFired # svc[s].timerFired)
               => /\ svc[s].timerFired = 0
                  /\ svc[s].callTimeout /\ svc[s].remaining = 0
                  /\ svc[s].localDesc = "offer" => svc[s].remoteDesc # "set"
                  /\ sent' = wsSend(sent, Frame("call-end", svc[s].peer, "timeout"))
                  /\ svc[s].peer \in Peers
                  /\ svc'[s].endCalls > 0
                  /\ Released(svc'[s])
                  /\ svc[s].localTrack = "live" => svc'[s].localStops = 1
                  /\ callService' = 0 /\ ~showCallModal']_vars

\* the timer of a ringing caller fired, wrote the frame and stopped the tracks
C4_Witness ==
  \E s \in Services :
    /\ svc[s].timerFired = 1 /\ svc[s].localStops = 1 /\ svc[s].op = "done"
    /\ BagIn(Frame("call-end", "B", "timeout"), sent)
    /\ BagIn(Frame("call-offer", "B", NULL), sent)

\* C5: a Decline of a ringing incoming call and an End in any state tear the
\* local call down and write a call-end frame for the other side (given a socket).
C5_DeclineOrEndSendsCallEnd ==
  [][((handleDeclineCall \/ handleEndCall) /\ wsRef # NULL)
       => /\ \E to \in Peers : sent' = sent (+) SetToBag({Frame("call-end", to, NULL)})
          /\ callService' = 0
          /\ \A s \in Services : s = callService => Released(svc'[s])]_vars

\* the call-offer frames written so far
CallOffers(out) == CopiesIn(Frame("call-offer", "B", NULL), out)

\* C12: originate.  When getUserMedia settles inside initializeCall, media
\* granted leads on to the offer (peer connection created) and media denied
\* ends the attempt: no peer connection, no timer, no frame, and a failed
\* attempt stays failed, so it never rings.  The step that completes the
\* offer enters ringing: local description offer, ringing timer started at
\* 60,000 ms, modal shown, call-offer frame written for the callee.  A
\* call-offer frame is written by that step only.
C12_OriginatePhases ==
  /\ [](\A s \in Services :
          svc[s].op = "failed" => ~Ringing(svc[s]) /\ ~svc[s].callTimeout)
  /\ [][/\ \A s \in Services :
             /\ (svc[s].op = "init_media" /\ svc'[s].op # "init_media") =>
                  IF svc'[s].localTrack = "live"
                    THEN /\ svc'[s].op = "init_offer"
                         /\ svc'[s].pcState = "open"
                         /\ ~Ringing(svc'[s])
                    ELSE /\ svc'[s].op = "failed"
                         /\ svc'[s].pcState = "none"
                         /\ ~svc'[s].callTimeout
                         /\ sent' = sent
             /\ (svc[s].op = "init_setlocal" /\ svc'[s].op = "done") =>
                  /\ Ringing(svc'[s])
                  /\ svc'[s].callTimeout /\ svc'[s].remaining = CALL_TIMEOUT
                  /\ svc'[s].localTrack = "live"
                  /\ showCallModal'
                  /\ sent' = wsSend(sent, Frame("call-offer", svc[s].peer, NULL))
                  /\ svc[s].peer \in Peers
             /\ svc[s].op = "failed" =>
                  /\ svc'[s].op = "failed"
                  /\ svc[s].pcState = "none" => svc'[s].pcState = "none"
        /\ CallOffers(sent') # CallOffers(sent) =>
             \E s \in Services :
               svc[s].op = "init_setlocal" /\ svc'[s].op = "done"]_vars

\* One originate was denied media and came to nothing; another got media and
\* is ringing with its timer pending and its call-offer written.
C12_Witness ==
  \E s, t \in Services :
    /\ svc[s].op = "failed" /\ svc[s].pcState = "none" /\ svc[s].endCalls = 0
    /\ svc[t].op = "done" /\ Ringing(svc[t]) /\ svc[t].callTimeout
    /\ svc[t].localTrack = "live"
    /\ CallOffers(sent) = 1

\* C13: once the caller has received the call-answer (handleAnswer has been
\* entered with it on the ringing connection), the ringing timer does not
\* fire for that call.
C13_AnswerCancelsTimer ==
  [][\A s \in Services :
       svc'[s].timerFired # svc[s].timerFired => ~svc[s].ansOp]_vars

\* C14: the connectivity signal.  When the peer connection reports failed or
\* disconnected, teardown runs on that call (endCall: tracks stopped,
\* connection and data channel closed, timer cancelled, component reset) and
\* nothing is attempted again: no frame is written, no service is created and
\* no service starts or advances an originate or accept.  When it reports
\* connected, the call stays up (connection open, tracks as they were, no
\* endCall) and its pending timer is cancelled.
C14_ConnectivitySignal ==
  [][\A s \in Services, state \in {"connected", "disconnected", "failed"} :
       onconnectionstatechange(s, state) =>
         IF state = "connected"
           THEN /\ svc'[s].connected /\ ~svc'[s].callTimeout
                /\ svc'[s].pcState = "open" /\ svc'[s].dcState = "open"
                /\ svc'[s].localTrack = svc[s].localTrack
                /\ svc'[s].remoteTrack = svc[s].remoteTrack
                /\ svc'[s].endCalls = svc[s].endCalls
                /\ callService' = callService /\ showCallModal' = showCallModal
           ELSE /\ svc'[s].endCalls > 0 /\ svc'[s].endCalls >= svc[s].endCalls
                /\ Released(svc'[s])
                /\ svc[s].localTrack = "live" => svc'[s].localTrack = "stopped"
                /\ svc'[s].pcState = "closed"
                /\ callService' = 0 /\ ~showCallModal'
                /\ sent' = sent
                /\ Len(svc') = Len(svc)
                /\ \A t \in Services : svc'[t].op = svc[t].op]_vars

\* A callee whose answer is set and whose timer was pending has been reported
\* connected before any remote track arrived: the call is up, the timer gone.
C14_Witness ==
  \E s \in Services :
    /\ svc[s].connected /\ ~svc[s].callTimeout
    /\ svc[s].localDesc = "answer" /\ svc[s].remoteTrack = "none"
    /\ svc[s].pcState = "open" /\ svc[s].localTrack = "live"
    /\ svc[s].endCalls = 0

\* C15: the component reports a call as connected (isCallConnected, which the
\* modal shows as "Connected" in place of "Connecting...") only when the peer
\* connection of a call has reported the state connected.
C15_ConnectedOnlyWhenConfirmed ==
  isCallConnected => \E s \in Services : svc[s].connected

LastTyping(to) ==
  LET idx == {i \in 1..Len(typingSent) : typingSent[i].toUserId = to}
  IN IF idx = {} THEN FALSE
     ELSE typingSent[CHOOSE i \in idx : \A j \in idx : j <= i].isTyping

\* C18: a typing indicator always expires.  Whenever the last typing frame
\* written for a target says isTyping = true, the timer whose callback writes
\* isTyping = false for that target is pending: the frame that ends the
\* indication is due whatever the user does next, also nothing at all.
C18_TypingExpires ==
  \A to \in Peers :
    LastTyping(to) => (typingTimeoutRef.set /\ typingTimeoutRef.to = to)

\* C21: after teardown the coordinator holds no per-call data.  Whenever the
\* component has no call service, it has no pending incoming-call data, no
\* streams, no modal and the connected flag is false; and an originated call
\* (a service holding its own offer) is never shown with incoming-call data.
C21_NoPerCallDataAfterTeardown ==
  /\ callService = 0 =>
       /\ ~incomingCallData.set
       /\ localStream = 0 /\ remoteStream = 0
       /\ ~isCallConnected
       /\ ~showCallModal
  /\ \A s \in Services :
       (callService = s /\ svc[s].localDesc = "offer") => ~incomingCallData.set

\* C22: whenever a call is active and its ongoing screen is shown, the end
\* action tears it down (and writes call-end to the other participant):
\* pressing End is a step of the component, whatever conversation is selected.
C22_EndTearsDown ==
  ( /\ RefsCurrent
    /\ showCallModal /\ ~(incomingCallData.set /\ ~isCallConnected)
    /\ callService # 0 ) => ENABLED handleEndCall

\* C23: after a caller-side media acquisition failure no session is left
\* behind: the failed service is not the component's call service, and once
\* the refs are current an incoming-call frame is handled as a new call.
C23_FailedOriginateLeavesNoSession ==
  \A s \in Services :
    svc[s].op = "failed" =>
      /\ callService # s
      /\ (RefsCurrent /\ wsRef # NULL /\ Len(svc) < MaxServices) =>
           \A from \in Peers : ENABLED onIncomingCall(from, FALSE)

\* C24: there is one authoritative call state.  At most one CallService of
\* the client holds live media, an open peer connection or data channel, or
\* a pending timer at any time.
C24_OneServiceHoldsResources ==
  Cardinality({s \in Services : ~Released(svc[s])}) <= 1

\* the caller rings and nothing has come back from the callee
Unanswered(r) == Ringing(r) /\ r.remoteDesc = "none" /\ ~r.ansOp

\* C29: with an unreachable callee the call is not failed early.  A caller
\* that rings unanswered keeps ringing with its timer pending; the timer was
\* started at 60,000 ms and runs down only as time passes; and unless the
\* user ends the call or a frame arrives, the only step that ends the
\* ringing is the firing of the timer when the 60,000 ms have run out, which
\* writes call-end with reason "timeout".
C29_UnreachableRingsFullTimeout ==
  [][\A s \in Services :
       /\ (s \in DOMAIN svc' /\ Unanswered(svc'[s]) /\ svc[s].op = "init_setlocal")
            => svc'[s].callTimeout /\ svc'[s].remaining = CALL_TIMEOUT
       /\ (Unanswered(svc[s]) /\ Unanswered(svc'[s]))
            => /\ svc'[s].callTimeout
               /\ svc'[s].remaining # svc[s].remaining
                    => (Tick /\ svc'[s].remaining = svc[s].remaining - TickMs)
       /\ ( /\ Unanswered(svc[s]) /\ ~Unanswered(svc'[s])
            /\ ~handleEndCall /\ ~handleDeclineCall
            /\ ~onCallEnded /\ ~onCallAnswer )
            => /\ svc[s].remaining = 0
               /\ svc'[s].timerFired = 1
               /\ sent' = wsSend(sent, Frame("call-end", svc[s].peer, "timeout"))
               /\ svc'[s].endCalls > 0]_vars

\* a call that rang unanswered until its timer ran out: the offer was written,
\* no answer was applied, the time ran down to zero and then the timer fired
C29_Witness ==
  \E s \in Services :
    /\ wsRef # NULL
    /\ svc[s].timerFired = 1 /\ svc[s].endCalls = 1
    /\ svc[s].op = "done" /\ ~svc[s].ansOp
    /\ callService = 0 /\ ~isCallConnected /\ ~incomingCallData.set
    /\ CopiesIn(Frame("call-offer", "B", NULL), sent) = 1
    /\ CopiesIn(Frame("call-end", "B", "timeout"), sent) = 1
    /\ CopiesIn(Frame("call-end", "B", NULL), sent) = 0

\* the typing timer: its callback ran (the only step that writes isTyping =
\* false) or it was cancelled by a blank input
TypingTimerCancelled ==
  [][/\ typingTimeoutFires => typingTimeoutRef.set
     /\ (typingSent' # typingSent /\ ~typingSent'[Len(typingSent')].isTyping)
          => typingTimeoutRef.set
     /\ (handleTyping(0) /\ ~typingTimeoutRef.set)
          => typingTimeoutRef' = typingTimeoutRef /\ typingSent' = typingSent]_vars

C20_NoContinuationAfterTeardown ==
  [][\A s \in Services :
       svc[s].endCalls > 0 =>
         /\ svc'[s].localTrack = "live" => svc[s].localTrack = "live"
         /\ svc'[s].pcState = "open" => svc[s].pcState = "open"
         /\ svc'[s].callTimeout => svc[s].callTimeout
         /\ (svc'[s].op = "done" /\ svc[s].op # "done") =>
              /\ CopiesIn(Frame("call-answer", svc[s].peer, NULL), sent') =
                   CopiesIn(Frame("call-answer", svc[s].peer, NULL), sent)
              /\ CopiesIn(Frame("call-offer", svc[s].peer, NULL), sent') =
                   CopiesIn(Frame("call-offer", svc[s].peer, NULL), sent)]_vars

(***************************************************************************)
(*         Claims about the registry, presence and message fan-out         *)
(***************************************************************************)

\* the registry entries held under one identity, and for one connection
EntriesOf(id) == {e \in connectedUsers : e[1] = id}

EntriesFor(c) == {e \in connectedUsers : e[2] = c}

\* C6: binding an identity replaces what the registry held for it.  The
\* registry never holds two entries under one identity, and right after an
\* auth frame of connection c with userId id is handled (so also after the
\* second of two binds of id on two connections) the registry holds under id
\* exactly the one entry for c: lookup returns the connection bound last.
C6_LastBindWins ==
  /\ [](\A id \in Users : Cardinality(EntriesOf(id)) <= 1)
  /\ [][\A c \in Conns :
          sockets'[c].auths = sockets[c].auths + 1 =>
            {e \in connectedUsers' : e[1] = sockets'[c].userId}
              = {<<sockets'[c].userId, c>>}]_vars

\* Both connections have bound "A", connection 2 first and connection 1
\* after it, and the registry holds the single entry of connection 1.
C6_Witness ==
  /\ sockets[1].userId = "A" /\ sockets[1].readyState = "open"
  /\ sockets[2].userId = "A" /\ sockets[2].readyState = "open"
  /\ sockets[1].auths = 1 /\ sockets[2].auths = 1
  /\ connectedUsers = {<<"A", 1>>}

\* C7: in every reachable state a connection is the registered channel of at
\* most one identity, also after it has sent auth frames with different
\* userIds.
C7_OneIdentityPerConnection ==
  \A c \in Conns : Cardinality(EntriesFor(c)) <= 1

\* C8: every auth frame handled makes exactly one updateUserStatus "online"
\* call; the close of a connection whose userId is set makes exactly one
\* connectedUsers.delete and one updateUserStatus "offline" call, and the
\* close of a connection that never authenticated makes none; an 'error'
\* event makes none, so that error followed by close leaves the counts at
\* one.
C8_PresenceOncePerEvent ==
  /\ [](\A c \in Conns :
          LET unbound == IF sockets[c].readyState = "closed"
                            /\ sockets[c].userId # NULL THEN 1 ELSE 0
          IN  /\ sockets[c].onlineCalls = sockets[c].auths
              /\ sockets[c].deleteCalls = unbound
              /\ sockets[c].offlineCalls = unbound)
  /\ [][\A c \in Conns :
          /\ sockets'[c].auths = sockets[c].auths + 1 =>
               statusCalls' = statusCalls (+)
                 SetToBag({[id |-> sockets'[c].userId, status |-> "online"]})
          /\ (sockets[c].readyState # "closed"
                /\ sockets'[c].readyState = "closed") =>
               IF sockets[c].userId # NULL
                 THEN /\ statusCalls' = statusCalls (+)
                           SetToBag({[id |-> sockets[c].userId,
                                      status |-> "offline"]})
                      /\ connectedUsers' = connectedUsers \ EntriesOf(sockets[c].userId)
                      /\ Cardinality(connectedUsers \ connectedUsers') <= 1
                 ELSE /\ statusCalls' = statusCalls
                      /\ connectedUsers' = connectedUsers
          /\ sockets'[c].errors # sockets[c].errors =>
               /\ statusCalls' = statusCalls
               /\ connectedUsers' = connectedUsers]_vars

\* A bound connection had an 'error' event and then its 'close' event.
C8_Witness ==
  \E c \in Conns :
    /\ sockets[c].errors = 1 /\ sockets[c].readyState = "closed"
    /\ sockets[c].userId # NULL /\ sockets[c].auths = 1
    /\ sockets[c].onlineCalls = 1
    /\ sockets[c].deleteCalls = 1 /\ sockets[c].offlineCalls = 1

\* the request has had its authorization check and did not pass it
Unauthorized(q) ==
  \/ /\ q.groupId = NULL /\ q.receiverId # NULL
     /\ q.pc # "getFriendship"
     /\ q.areFriends # "accepted"
  \/ /\ q.groupId # NULL
     /\ q.pc # "getGroupMembers"
     /\ q.userId \notin q.groupMembers

MessagesOf(r) == {i \in 1..Len(messages) : messages[i].req = r}

FramesOf(r) == {f \in BagToSet(wsFrames) : f.req = r}

\* C9: a submission that fails authorization (direct: the friendship is
\* absent or not accepted; group: the sender is not in the member list) is
\* answered 403 and has no other effect: no message row is inserted for it
\* and no new_message frame is handed to any connection.
C9_UnauthorizedNoEffects ==
  \A r \in Requests :
    Unauthorized(requests[r]) =>
      /\ requests[r].pc = "done" /\ requests[r].status = 403
      /\ MessagesOf(r) = {}
      /\ FramesOf(r) = {}

\* A direct message over a pending friendship was rejected while the
\* recipient was bound on an open connection.
C9_Witness ==
  \E r \in Requests :
    /\ Unauthorized(requests[r])
    /\ requests[r].areFriends = "pending"
    /\ requests[r].status = 403
    /\ \E c \in Conns : /\ <<requests[r].receiverId, c>> \in connectedUsers
                        /\ sockets[c].readyState = "open"

\* the identity has a registry entry whose connection is open
Reachable(id) ==
  \E c \in Conns : <<id, c>> \in connectedUsers /\ sockets[c].readyState = "open"

\* C10: an authorized message is inserted exactly once, whatever the
\* reachability of its targets.  Direct: when the insert has resolved and
\* the recipient has no registry entry or a connection that is not open, the
\* handler answers 200 at once and hands no frame to any connection.  Group:
\* the broadcast answers 200 and hands no frame for a member that has no
\* entry or a connection that is not open.
C10_UnreachableSkipped ==
  /\ [](\A r \in Requests :
          /\ Cardinality(MessagesOf(r)) <= 1
          /\ requests[r].status = 200 => Cardinality(MessagesOf(r)) = 1)
  /\ [][\A r \in Requests :
          /\ (requests[r].pc = "createMessage"
                /\ requests'[r].pc # "createMessage"
                /\ requests[r].groupId = NULL
                /\ ~Reachable(requests[r].receiverId)) =>
               /\ messages' = Append(messages, messages'[Len(messages')])
               /\ messages'[Len(messages')].req = r
               /\ requests'[r].pc = "done" /\ requests'[r].status = 200
               /\ wsFrames' = wsFrames
          /\ (requests[r].pc = "getUser"
                /\ requests'[r].pc # "getUser"
                /\ requests[r].groupId # NULL) =>
               /\ requests'[r].pc = "done" /\ requests'[r].status = 200
               /\ messages' = messages
               /\ \A m \in requests[r].allMembers :
                    ~Reachable(m) =>
                      \A f \in BagToSet(wsFrames') : ~(f.req = r /\ f.to = m)]_vars

\* A direct message was answered 200 with its row inserted and no frame
\* written, the recipient's registered connection being no longer open.
C10_Witness ==
  \E r \in Requests :
    /\ requests[r].pc = "done" /\ requests[r].status = 200
    /\ requests[r].groupId = NULL
    /\ requests[r].receiverWs # 0
    /\ sockets[requests[r].receiverWs].readyState = "closing"
    /\ <<requests[r].receiverId, requests[r].receiverWs>> \in connectedUsers
    /\ Cardinality(MessagesOf(r)) = 1
    /\ wsFrames = EmptyBag

\* the frames of request r handed to ws.send for identity m, after the step
FramesTo(frames, r, m) == {f \in BagToSet(frames) : f.req = r /\ f.to = m}

C19_StaleCloseKeepsNewer ==
  [][\A c \in Conns :
       onClose(c) =>
         \A e \in connectedUsers :
           (e[2] # c /\ sockets[e[2]].readyState = "open") =>
             e \in connectedUsers']_vars

\* the type under which a relay would deliver a signaling frame
\* (chat-area.tsx:229, 257, 265, 271)
Delivered(type) == IF type = "call-offer" THEN "incoming-call"
                   ELSE IF type = "call-end" THEN "call-ended" ELSE type

\* C17: the server relays signaling through the registry.  When a signaling
\* frame arrives on the connection of a bound identity and is addressed to
\* an identity bound to an open connection, the step that handles it writes
\* the corresponding frame to the addressee's connection.
C17_SignalingRelayed ==
  [][\A c \in Conns, type \in SignalTypes, to \in Users :
       ( /\ onMessage_signal(c, type, to)
         /\ sockets[c].userId # NULL
         /\ sockets[c].userId # to
         /\ <<sockets[c].userId, c>> \in connectedUsers
         /\ MapHas(connectedUsers, to)
         /\ MapGet(connectedUsers, to) # c
         /\ sockets[MapGet(connectedUsers, to)].readyState = "open" )
       => \E f \in BagToSet(wsFrames') :
            /\ f.type = Delivered(type)
            /\ f.to = to
            /\ f.ws = MapGet(connectedUsers, to)
            /\ CopiesIn(f, wsFrames') > CopiesIn(f, wsFrames)]_vars

\* C25: lookup, readiness check and write are atomic relative to bind and
\* unbind.  The step that writes the new_message frame of a direct message
\* writes it to a connection that, at that moment, is open and is the
\* recipient's registered connection.
C25_DirectWriteAtomic ==
  [][\A r \in Requests :
       ( /\ requests[r].groupId = NULL
         /\ requests[r].pc = "getUser" /\ requests'[r].pc = "done" )
       => /\ sockets[requests[r].receiverWs].readyState = "open"
          /\ <<requests[r].receiverId, requests[r].receiverWs>> \in connectedUsers]_vars

\* the members of a group request whose registered connection cannot be
\* written to: it has left OPEN
Failing(r) ==
  {n \in requests[r].allMembers :
     \E c \in Conns : <<n, c>> \in connectedUsers /\ sockets[c].readyState # "open"}

\* C26: in a group broadcast a member whose connection cannot be written to
\* does not affect the others.  Whatever members are bound to a connection
\* that has failed, the broadcast step hands the frame to every member bound
\* to an open connection, answers 200 and leaves the stored row in place;
\* and an error event on a connection takes back no frame and no response.
C26_BroadcastIsolatesFailure ==
  /\ [][\A r \in Requests :
          ( /\ requests[r].groupId # NULL
            /\ requests[r].pc = "getUser" /\ requests'[r].pc = "done" )
          => /\ requests'[r].status = 200
             /\ messages' = messages /\ Cardinality(MessagesOf(r)) = 1
             /\ \A m \in requests[r].allMembers \ Failing(r) :
                  Reachable(m) => FramesTo(wsFrames', r, m) # {}
             /\ \A n \in Failing(r) : FramesTo(wsFrames', r, n) = {}]_vars
  /\ [][\A c \in Conns :
          onError(c) =>
            wsFrames' = wsFrames /\ requests' = requests /\ messages' = messages]_vars

\* A group message was broadcast while member B's connection had failed
\* (an error event, the socket closing, the entry still in the registry):
\* A got the frame, B none, the answer was 200.
C26_Witness ==
  \E r \in Requests :
    /\ requests[r].pc = "done" /\ requests[r].status = 200
    /\ requests[r].groupId # NULL
    /\ {"A", "B"} \subseteq requests[r].allMembers
    /\ \E c \in Conns : /\ <<"B", c>> \in connectedUsers
                        /\ sockets[c].errors = 1
                        /\ sockets[c].readyState = "closing"
    /\ FramesTo(wsFrames, r, "A") # {}
    /\ FramesTo(wsFrames, r, "B") = {}
    /\ Cardinality(MessagesOf(r)) = 1

\* C27: presence follows the registry.  Once every presence update has
\* completed and every connection that left OPEN has had its close event
\* handled, an identity is online exactly when it is bound to an open
\* connection.
C27_PresenceFollowsRegistry ==
  ( /\ statusCalls = EmptyBag
    /\ \A c \in Conns : sockets[c].readyState # "closing" )
  => \A id \in Users : (users[id] = "online") <=> Reachable(id)

\* C28: the registry never keeps an entry for a closed connection: once the
\* close event of a connection has been handled no entry refers to it, under
\* any identity.
C28_NoEntryForClosedConnection ==
  \A e \in connectedUsers : sockets[e[2]].readyState # "closed"

====
